---- MODULE Spec2Model ----
(***************************************************************************)
(* Order lifecycle and payment settlement of the As Bolsyn marketplace bot. *)
(* The database rows (meals, orders) are the shared state.  Every handler  *)
(* is a coroutine on one event loop: it runs atomically between two awaits *)
(* and other handlers may run at each await.  A handler in flight is a     *)
(* task that holds the ORM objects it loaded (snapshots of the rows);      *)
(* Model.save() writes every column of the object back to the row.         *)
(***************************************************************************)
EXTENDS Integers, Sequences, FiniteSets, TLC

\* ---------------------------------------------------------------- bounds
MaxOrders == 2
MaxPurchases == 1
MaxTasks == 2
MaxTicks == 2
TickMinutes == 20
MaxCommissions == 2

\* ------------------------------------------------------------- constants
ORDER_TIMEOUT_MINUTES == 30

\* absent values: no row, no payment id, no timestamp, no integer
NoRow == [none |-> TRUE]
NoPaymentId == [backend |-> "none", order |-> 0]
NoTime == -1
ParseError == -1

PENDING == "pending"
PAID == "paid"
COMPLETED == "completed"
CANCELLED == "cancelled"
OrderStatus == {PENDING, PAID, COMPLETED, CANCELLED}

MealIds == {1}
\* portion counts a buy_meal callback can carry
Counts == {0, 1, 2, 3}
\* Meal.price, in hundredths of a tenge
ListedPrices == {150000}
\* quantities a vendor lists a meal with (process_meal_quantity: > 0)
ListedQuantities == {2}
\* end of the pickup window of the listed meals, in minutes
PickupEnd == TickMinutes
\* minute at which the calendar month turns
MonthEnd == TickMinutes

\* table vendors: the vendor that lists the meals
OwnerVendor == 1

Max(a, b) == IF a >= b THEN a ELSE b

\* -------------------------------------------------- invoice payload text
\* A payload is a sequence of symbols; "order" stands for the literal
\* prefix, "_" is the separator, "0".."9" are digits, "x" is any other text.
Digit == <<"0", "1", "2", "3", "4", "5", "6", "7", "8", "9">>
DigitValue(c) == CHOOSE d \in 0..9 : Digit[d + 1] = c
IsDigit(c) == \E d \in 0..9 : Digit[d + 1] = c

RECURSIVE FormatInt(_)
FormatInt(n) == IF n < 10 THEN <<Digit[n + 1]>>
                ELSE FormatInt(n \div 10) \o <<Digit[(n % 10) + 1]>>

\* TEXT["payment_payload"].format(order_id=...)
payment_payload(order_id) == <<"order", "_">> \o FormatInt(order_id)

\* str.split('_'): the pieces between the separators
RECURSIVE Split(_)
Split(s) ==
    IF \A i \in 1..Len(s) : s[i] /= "_" THEN <<s>>
    ELSE LET k == CHOOSE i \in 1..Len(s) :
                     s[i] = "_" /\ \A j \in 1..(i - 1) : s[j] /= "_"
         IN <<SubSeq(s, 1, k - 1)>> \o Split(SubSeq(s, k + 1, Len(s)))

\* int(text): the decimal value, ParseError for ValueError
RECURSIVE DecimalValue(_)
DecimalValue(p) == IF Len(p) = 0 THEN 0
                   ELSE 10 * DecimalValue(SubSeq(p, 1, Len(p) - 1))
                        + DigitValue(p[Len(p)])
ParseInt(p) == IF Len(p) > 0 /\ \A i \in 1..Len(p) : IsDigit(p[i])
               THEN DecimalValue(p) ELSE ParseError

\* the order id the payment handlers extract from a payload, ParseError
\* when the handler rejects the payload's format
ParseOrderId(payload) ==
    IF Len(payload) = 0 \/ \A i \in 1..Len(payload) : payload[i] /= "_"
    THEN ParseError
    ELSE ParseInt(Split(payload)[2])

Payloads == {<<>>, <<"order">>, <<"order", "_">>, <<"order", "_", "x">>,
             <<"order", "_", "1", "_", "2">>}
            \cup {payment_payload(i) : i \in 1..(MaxOrders + 1)}

\* ------------------------------------------------------------ payment ids
\* create_payment: "TG-<order>-<uuid>" or "EXT-<order>-<uuid>"
PaymentId(backend, order_id) == [backend |-> backend, order |-> order_id]
UnknownPaymentId == [backend |-> "EXT", order |-> 0]
PaymentIds == {PaymentId(b, o) : b \in {"TG", "EXT"}, o \in 1..MaxOrders}
              \cup {UnknownPaymentId}

VARIABLES
    now,        \* wall clock, minutes
    cfg,        \* PaymentGateway configuration, fixed at start
    meals,      \* table meals: id -> row
    orders,     \* table orders: sequence of rows, the index is the id
    notified,   \* per order, number of "order paid" notifications sent
    tasks,      \* handlers in flight
    out,        \* response of the handler that finished in the last step
    earnings,   \* table vendor_earnings: sequence of rows, the index is the id
    commissions, \* table commissions: sequence of rows
    payouts     \* table payout_requests: sequence of rows

vars == <<now, cfg, meals, orders, notified, tasks, out, earnings, commissions,
          payouts>>

\* the tables of the earnings ledger
ledger == <<earnings, commissions, payouts>>

OrderIds == 1..Len(orders)
TaskIds == 1..MaxTasks

\* a handler in flight: its position, the order and meal objects it holds
\* (oid, order, mid, meal), the rows a periodic task still has to save
\* (batch), the portion count of a purchase (count) and the payment id of a
\* webhook body (payment_id)
Task(kind, pc, oid, order, mid, meal) ==
    [kind |-> kind, pc |-> pc, oid |-> oid, order |-> order, mid |-> mid,
     meal |-> meal, batch |-> <<>>, count |-> 0, payment_id |-> NoPaymentId,
     vendor |-> 0, period |-> <<>>, rate |-> 0, amount |-> 0, time |-> NoTime]
Idle == Task("idle", "idle", 0, NoRow, 0, NoRow)
\* a response: the handler, its result, the branch taken, and the order,
\* meal and portion count it was about
\* a response that answers every delivery with success
handle_payment_webhook_always_success(outcome) ==
    [status |-> 200, body |-> "success", message |-> FALSE]

\* the HTTP response of the payment webhook route: the processor returned
\* a true value, returned a false value, or an exception was raised
handle_payment_webhook(outcome) ==
    IF outcome = "true"
    THEN [status |-> 200, body |-> "success", message |-> FALSE]
    ELSE [status |-> 400, body |-> "error", message |-> TRUE]
NoResponse == [status |-> 0, body |-> "none", message |-> FALSE]

\* results of process_payment_webhook reach the caller through the route
OutFor(op, ok, path, oid, mid, count) ==
    [op |-> op, ok |-> ok, path |-> path, oid |-> oid, mid |-> mid,
     count |-> count, payment |-> NoRow,
     http |-> IF op = "webhook"
              THEN handle_payment_webhook(IF ok THEN "true" ELSE "false")
              ELSE NoResponse]
Out(op, ok, path) == OutFor(op, ok, path, 0, 0, 0)
NoOut == Out("none", FALSE, "none")

\* native backend, external backend only, no backend
\* TELEGRAM_PAYMENT_PROVIDER_TOKEN: unset, too short, long enough
NoToken == <<>>
ShortToken == <<"t", "o", "k", "e", "n">>
ProviderToken == <<"1", "2", "3", ":", "T", "E", "S", "T">>
ProviderTokens == {NoToken, ShortToken, ProviderToken}

\* the settings a PaymentGateway is constructed from, and the database
Config(telegram_payment_enabled, telegram_provider_token, enabled, database) ==
    [telegram_payment_enabled |-> telegram_payment_enabled,
     telegram_provider_token |-> telegram_provider_token,
     enabled |-> enabled, database |-> database]
\* native and external backend configured
NativeConfig == Config(TRUE, ProviderToken, TRUE, "postgres")
Configs == {NativeConfig,
            Config(FALSE, NoToken, TRUE, "postgres"),
            Config(FALSE, NoToken, FALSE, "postgres")}

\* a test of the switch alone
TelegramEnabledOnly == cfg.telegram_payment_enabled

is_telegram_payments_available ==
    /\ cfg.telegram_payment_enabled
    /\ cfg.telegram_provider_token /= NoToken
    /\ Len(cfg.telegram_provider_token) > 5

Init ==
    /\ now = 0
    /\ cfg \in Configs
    /\ meals \in [MealIds -> [quantity : ListedQuantities, is_active : {TRUE},
                              pickup_end_time : {PickupEnd},
                              vendor : {OwnerVendor}, price : ListedPrices]]
    /\ orders = <<>>
    /\ notified = <<>>
    /\ tasks = [t \in TaskIds |-> Idle]
    /\ out = NoOut
    /\ earnings = <<>>
    /\ commissions = <<>>
    /\ payouts = <<>>

\* a handler starts in the lowest free slot
FreeTask(t) ==
    /\ tasks[t].kind = "idle"
    /\ \A u \in 1..(t - 1) : tasks[u].kind /= "idle"
Finish(t) == tasks' = [tasks EXCEPT ![t] = Idle]
Running(t, kind, pc) == tasks[t].kind = kind /\ tasks[t].pc = pc

\* Model.save(): every column of the loaded object is written to its row
SaveOrder(oid, row) == orders' = [orders EXCEPT ![oid] = row]
SaveMeal(mid, row) == meals' = [meals EXCEPT ![mid] = row]

\* ------------------------------------------------- process_buy_callback
\* Meal.filter(id=meal_id, is_active=True).first()
ActiveMeal(mid) == IF mid \in MealIds /\ meals[mid].is_active
                   THEN meals[mid] ELSE NoRow

\* the availability test without its comparison of the portions
BuyRejectedWhenInactive(meal, count) == meal = NoRow

\* the availability test of the purchase action (bot.py:988)
BuyRejected(meal, count) ==
    IF meal = NoRow THEN TRUE ELSE meal.quantity < count

\* purchases that passed the availability test and have not created their
\* order yet
BuysInFlight == Cardinality({t \in TaskIds : tasks[t].kind = "buy"
                                             /\ tasks[t].pc = "create"})

process_buy_callback_read(t, mid, count) ==
    /\ FreeTask(t)
    /\ LET meal == ActiveMeal(mid) IN
       IF BuyRejected(meal, count)
       THEN /\ out' = OutFor("buy", FALSE, "unavailable", 0, mid, count)
            /\ UNCHANGED tasks
       ELSE /\ tasks' = [tasks EXCEPT ![t] =
                   [Task("buy", "create", 0, NoRow, mid, meal)
                        EXCEPT !.count = count]]
            /\ out' = NoOut
    /\ UNCHANGED <<now, cfg, meals, orders, notified>>
    /\ UNCHANGED ledger

\* Consumer.filter(...).first(); Order.create(...); create_payment(...)
process_buy_callback_create(t, registered) ==
    /\ Running(t, "buy", "create")
    /\ IF ~registered
       THEN \* Order.create raises: the consumer is None
            /\ out' = OutFor("buy", FALSE, "error", 0, tasks[t].mid,
                             tasks[t].count)
            /\ Finish(t)
            /\ UNCHANGED <<orders, notified>>
       ELSE LET row == [status |-> PENDING, payment_id |-> NoPaymentId,
                        quantity |-> tasks[t].count, created_at |-> now,
                        completed_at |-> NoTime, meal |-> tasks[t].mid]
                oid == Len(orders) + 1
            IN /\ orders' = Append(orders, row)
               /\ notified' = Append(notified, 0)
               /\ IF is_telegram_payments_available \/ cfg.enabled
                  THEN /\ tasks' = [tasks EXCEPT ![t] =
                             [Task("buy", "save", oid, row, tasks[t].mid,
                                   tasks[t].meal)
                                 EXCEPT !.count = tasks[t].count]]
                       /\ out' = NoOut
                  ELSE \* create_payment returned (None, None)
                       /\ out' = OutFor("buy", FALSE, "no_gateway", oid,
                                        tasks[t].mid, tasks[t].count)
                       /\ Finish(t)
    /\ UNCHANGED <<now, cfg, meals>>
    /\ UNCHANGED ledger

\* order.payment_id = payment_id; order.save()
process_buy_callback_save(t) ==
    /\ Running(t, "buy", "save")
    /\ LET backend == IF is_telegram_payments_available THEN "TG" ELSE "EXT"
           row == [tasks[t].order EXCEPT
                       !.payment_id = PaymentId(backend, tasks[t].oid)]
       IN SaveOrder(tasks[t].oid, row)
    /\ out' = OutFor("buy", TRUE, "created", tasks[t].oid, tasks[t].mid,
                     tasks[t].count)
    /\ Finish(t)
    /\ UNCHANGED <<now, cfg, meals, notified>>
    /\ UNCHANGED ledger

\* ---------------------------------------------- process_payment_webhook
\* the body holds no status
MissingStatus == "missing"
WebhookStatuses == {"completed", "pending", "failed", MissingStatus}
\* the X-Signature header equals the HMAC-SHA256 of the body or does not
Signatures == {"valid", "invalid"}
PAYMENT_WEBHOOK_SECRET == "demo_webhook_secret"
\* webhook bodies: payment_id, status and order_id may be missing
WebhookData == [payment_id : PaymentIds \cup {NoPaymentId},
                status : WebhookStatuses,
                order_id : 0..(MaxOrders + 1),
                signature : Signatures]

\* PaymentGateway.verify_webhook_signature; no handler calls it
verify_webhook_signature(signature) ==
    IF ~cfg.enabled \/ PAYMENT_WEBHOOK_SECRET = ""
    THEN TRUE
    ELSE signature = "valid"
\* the bodies that can arrive: the payment id is missing, unknown, or one
\* that create_payment issued under the running configuration
\* (a delivery whose signature does not match is one that claims completion)
WebhookInputs ==
    LET ids == {NoPaymentId, UnknownPaymentId}
                  \cup {orders[o].payment_id : o \in OrderIds}
        body(p, s, g) == [payment_id |-> p, status |-> s, order_id |-> 0,
                          signature |-> g]
    IN {body(p, s, "valid") : p \in ids, s \in WebhookStatuses}
          \cup {body(p, "completed", "invalid") : p \in ids}

\* a lookup that takes the first order whatever payment id it holds
FirstOrder(pid) == IF Len(orders) > 0 THEN 1 ELSE 0

\* Order.filter(payment_id=payment_id).first(): the id of the row, 0 if none
OrderByPaymentId(pid) ==
    LET found == {o \in OrderIds : orders[o].payment_id = pid}
    IN IF found = {} THEN 0
       ELSE CHOOSE o \in found : \A p \in found : o <= p

\* the order as the handler marks it paid
MarkedPaid(row) == [row EXCEPT !.status = PAID]

\* a duplicate test that lets every delivery through
WebhookNeverDuplicate(row) == FALSE

\* if order.status != OrderStatus.PENDING: return True
WebhookDuplicate(row) == row.status /= PENDING

\* a decrement of one portion whatever the order holds
DecrementedByOne(meal, portions) ==
    [meal EXCEPT !.quantity = Max(0, meal.quantity - 1)]

\* a decrement without the floor
DecrementedUnfloored(meal, portions) ==
    [meal EXCEPT !.quantity = meal.quantity - portions]

\* meal.quantity = max(0, meal.quantity - order.quantity)
Decremented(meal, portions) ==
    [meal EXCEPT !.quantity = Max(0, meal.quantity - portions)]

process_payment_webhook_read(t, data) ==
    /\ FreeTask(t)
    /\ LET oid == OrderByPaymentId(data.payment_id) IN
       IF data.payment_id = NoPaymentId \/ data.status /= "completed"
       THEN /\ out' = Out("webhook", FALSE, "invalid")
            /\ UNCHANGED tasks
       ELSE IF oid = 0
       THEN /\ out' = Out("webhook", FALSE, "not_found")
            /\ UNCHANGED tasks
       ELSE IF WebhookDuplicate(orders[oid])
       THEN /\ out' = OutFor("webhook", TRUE, "duplicate", oid,
                             orders[oid].meal, 0)
            /\ UNCHANGED tasks
       ELSE /\ tasks' = [tasks EXCEPT ![t] =
                   [Task("webhook", "save_order", oid,
                         MarkedPaid(orders[oid]),
                         orders[oid].meal, meals[orders[oid].meal])
                       EXCEPT !.payment_id = data.payment_id]]
            /\ out' = NoOut
    /\ UNCHANGED <<now, cfg, meals, orders, notified>>
    /\ UNCHANGED ledger

\* request.json() raises on a body that is no JSON
handle_payment_webhook_malformed ==
    /\ out' = [Out("webhook", FALSE, "malformed")
                  EXCEPT !.http = handle_payment_webhook("raised")]
    /\ UNCHANGED <<now, cfg, meals, orders, notified, tasks>>
    /\ UNCHANGED ledger

process_payment_webhook_save_order(t) ==
    /\ Running(t, "webhook", "save_order")
    /\ SaveOrder(tasks[t].oid, tasks[t].order)
    /\ tasks' = [tasks EXCEPT ![t].pc = "save_meal"]
    /\ out' = NoOut
    /\ UNCHANGED <<now, cfg, meals, notified>>
    /\ UNCHANGED ledger

\* track_metric; meal.save(); send_order_notifications
process_payment_webhook_save_meal(t) ==
    /\ Running(t, "webhook", "save_meal")
    /\ SaveMeal(tasks[t].mid, Decremented(tasks[t].meal, tasks[t].order.quantity))
    /\ notified' = [notified EXCEPT ![tasks[t].oid] = @ + 1]
    /\ out' = OutFor("webhook", TRUE, "applied", tasks[t].oid, tasks[t].mid,
                     tasks[t].order.quantity)
    /\ Finish(t)
    /\ UNCHANGED <<now, cfg, orders>>
    /\ UNCHANGED ledger

\* -------------------------------------------- process_successful_payment
\* if order.status != OrderStatus.PENDING: "already processed"; return
NativeDuplicate(row) == row.status /= PENDING

process_successful_payment_read(t, payload) ==
    /\ FreeTask(t)
    /\ LET oid == ParseOrderId(payload) IN
       IF oid = ParseError
       THEN /\ out' = Out("native", FALSE, "invalid")
            /\ UNCHANGED tasks
       ELSE IF oid \notin OrderIds
       THEN /\ out' = Out("native", FALSE, "not_found")
            /\ UNCHANGED tasks
       ELSE IF NativeDuplicate(orders[oid])
       THEN /\ out' = OutFor("native", FALSE, "duplicate", oid,
                             orders[oid].meal, 0)
            /\ UNCHANGED tasks
       ELSE /\ tasks' = [tasks EXCEPT ![t] =
                   Task("native", "save_order", oid, MarkedPaid(orders[oid]),
                        orders[oid].meal, meals[orders[oid].meal])]
            /\ out' = NoOut
    /\ UNCHANGED <<now, cfg, meals, orders, notified>>
    /\ UNCHANGED ledger

process_successful_payment_save_order(t) ==
    /\ Running(t, "native", "save_order")
    /\ SaveOrder(tasks[t].oid, tasks[t].order)
    /\ tasks' = [tasks EXCEPT ![t].pc = "save_meal"]
    /\ out' = NoOut
    /\ UNCHANGED <<now, cfg, meals, notified>>
    /\ UNCHANGED ledger

\* meal.save(); track_metric; message.answer(order_confirmed)
process_successful_payment_save_meal(t) ==
    /\ Running(t, "native", "save_meal")
    /\ SaveMeal(tasks[t].mid, Decremented(tasks[t].meal, tasks[t].order.quantity))
    /\ notified' = [notified EXCEPT ![tasks[t].oid] = @ + 1]
    /\ out' = OutFor("native", TRUE, "applied", tasks[t].oid, tasks[t].mid,
                     tasks[t].order.quantity)
    /\ Finish(t)
    /\ UNCHANGED <<now, cfg, orders>>
    /\ UNCHANGED ledger

\* ----------------------------------------- PaymentGateway.process_webhook
\* meal.quantity -= order.quantity; if meal.quantity < 0: meal.quantity = 0
GatewayDecremented(meal, portions) ==
    LET q == meal.quantity - portions
    IN [meal EXCEPT !.quantity = IF q < 0 THEN 0 ELSE q]

\* the bodies handed to the gateway: a payment id of the provider's own
GatewayInputs ==
    {[payment_id |-> p, status |-> s, order_id |-> o, signature |-> "valid"] :
        p \in {NoPaymentId, UnknownPaymentId}, s \in WebhookStatuses,
        o \in 0..(Len(orders) + 1)}

process_webhook_read(t, data) ==
    /\ FreeTask(t)
    /\ IF \/ data.payment_id = NoPaymentId
          \/ data.status = MissingStatus
          \/ data.order_id = 0
       THEN /\ out' = Out("gateway", FALSE, "invalid")
            /\ UNCHANGED tasks
       ELSE IF data.status /= "completed"
       THEN /\ out' = Out("gateway", TRUE, "ignored")
            /\ UNCHANGED tasks
       ELSE IF data.order_id \notin OrderIds
       THEN /\ out' = Out("gateway", FALSE, "not_found")
            /\ UNCHANGED tasks
       ELSE LET oid == data.order_id
                row == [orders[oid] EXCEPT !.status = PAID,
                                           !.payment_id = data.payment_id]
            IN /\ tasks' = [tasks EXCEPT ![t] =
                      [Task("gateway", "save_order", oid, row,
                            orders[oid].meal, NoRow)
                          EXCEPT !.payment_id = data.payment_id]]
               /\ out' = NoOut
    /\ UNCHANGED <<now, cfg, meals, orders, notified>>
    /\ UNCHANGED ledger

process_webhook_save_order(t) ==
    /\ Running(t, "gateway", "save_order")
    /\ SaveOrder(tasks[t].oid, tasks[t].order)
    /\ tasks' = [tasks EXCEPT ![t].pc = "read_meal"]
    /\ out' = NoOut
    /\ UNCHANGED <<now, cfg, meals, notified>>
    /\ UNCHANGED ledger

\* meal = await order.meal
process_webhook_read_meal(t) ==
    /\ Running(t, "gateway", "read_meal")
    /\ tasks' = [tasks EXCEPT ![t].pc = "save_meal",
                              ![t].meal = meals[tasks[t].mid]]
    /\ out' = NoOut
    /\ UNCHANGED <<now, cfg, meals, orders, notified>>
    /\ UNCHANGED ledger

process_webhook_save_meal(t) ==
    /\ Running(t, "gateway", "save_meal")
    /\ SaveMeal(tasks[t].mid,
                GatewayDecremented(tasks[t].meal, tasks[t].order.quantity))
    /\ out' = OutFor("gateway", TRUE, "applied", tasks[t].oid, tasks[t].mid,
                     tasks[t].order.quantity)
    /\ Finish(t)
    /\ UNCHANGED <<now, cfg, orders, notified>>
    /\ UNCHANGED ledger

\* --------------------------------------------- process_pre_checkout_query
\* a pickup test that still accepts the very end of the window
PickupElapsedStrictly(meal) == meal.pickup_end_time < now

\* if pickup_end_time <= current_almaty: ok=False
PickupElapsed(meal) == meal.pickup_end_time <= now

\* the answer to a pre-checkout query: ok and the branch that gave it
PreCheckoutAnswer(payload) ==
    LET oid == ParseOrderId(payload) IN
    IF oid = ParseError THEN Out("pre_checkout", FALSE, "invalid")
    ELSE IF oid \notin OrderIds \/ orders[oid].status /= PENDING
    THEN Out("pre_checkout", FALSE, "not_found")
    ELSE LET meal == meals[orders[oid].meal] IN
         IF ~meal.is_active \/ meal.quantity < orders[oid].quantity
         THEN Out("pre_checkout", FALSE, "unavailable")
         ELSE IF PickupElapsed(meal)
         THEN Out("pre_checkout", FALSE, "expired")
         ELSE OutFor("pre_checkout", TRUE, "approved", oid,
                     orders[oid].meal, orders[oid].quantity)

process_pre_checkout_query(payload) ==
    /\ out' = PreCheckoutAnswer(payload)
    /\ UNCHANGED <<now, cfg, meals, orders, notified, tasks>>
    /\ UNCHANGED ledger

\* -------------------------------------------------- cmd_complete_order
\* who sends a command: the vendor of the meals, another approved vendor,
\* a vendor not yet approved, someone who is no vendor, the administrator
Users == {"owner", "other_vendor", "pending_vendor", "consumer", "admin"}
\* Vendor.filter(telegram_id=user_id).first(): the vendor's id, 0 if none
VendorOf(user) == CASE user = "owner" -> OwnerVendor
                    [] user = "other_vendor" -> 2
                    [] user = "pending_vendor" -> 3
                    [] OTHER -> 0
VendorApproved(v) == v \in {OwnerVendor, 2}
ADMIN_CHAT_ID == "admin"

\* a status test that refuses only an order not yet paid for
CompleteRefusedWhenPending(row) == row.status = PENDING

\* if order.status != OrderStatus.PAID: order_complete_not_paid
CompleteRefused(row) == row.status /= PAID

cmd_complete_order_read(t, user, order_id) ==
    /\ FreeTask(t)
    /\ LET vendor == VendorOf(user) IN
       IF vendor = 0
       THEN /\ out' = Out("complete", FALSE, "not_vendor")
            /\ UNCHANGED tasks
       ELSE IF ~VendorApproved(vendor)
       THEN /\ out' = Out("complete", FALSE, "vendor_not_approved")
            /\ UNCHANGED tasks
       ELSE IF order_id \notin OrderIds
       THEN /\ out' = Out("complete", FALSE, "order_not_found")
            /\ UNCHANGED tasks
       ELSE IF meals[orders[order_id].meal].vendor /= vendor
       THEN /\ out' = Out("complete", FALSE, "meal_not_found")
            /\ UNCHANGED tasks
       ELSE IF CompleteRefused(orders[order_id])
       THEN /\ out' = Out("complete", FALSE, "not_paid")
            /\ UNCHANGED tasks
       ELSE /\ tasks' = [tasks EXCEPT ![t] =
                   Task("complete", "save_order", order_id,
                        [orders[order_id] EXCEPT !.status = COMPLETED,
                                                 !.completed_at = now],
                        0, NoRow)]
            /\ out' = NoOut
    /\ UNCHANGED <<now, cfg, meals, orders, notified>>
    /\ UNCHANGED ledger

cmd_complete_order_save(t) ==
    /\ Running(t, "complete", "save_order")
    /\ SaveOrder(tasks[t].oid, tasks[t].order)
    /\ out' = OutFor("complete", TRUE, "completed", tasks[t].oid, 0, 0)
    /\ Finish(t)
    /\ UNCHANGED <<now, cfg, meals, notified>>
    /\ UNCHANGED ledger

\* ---------------------------------------------------- cmd_cancel_order
cmd_cancel_order_read(t, user, order_id) ==
    /\ FreeTask(t)
    /\ IF user /= ADMIN_CHAT_ID
       THEN /\ out' = Out("cancel", FALSE, "not_admin")
            /\ UNCHANGED tasks
       ELSE IF order_id \notin OrderIds
       THEN /\ out' = Out("cancel", FALSE, "order_not_found")
            /\ UNCHANGED tasks
       ELSE /\ tasks' = [tasks EXCEPT ![t] =
                   Task("cancel", "save_order", order_id,
                        [orders[order_id] EXCEPT !.status = CANCELLED],
                        0, NoRow)]
            /\ out' = NoOut
    /\ UNCHANGED <<now, cfg, meals, orders, notified>>
    /\ UNCHANGED ledger

cmd_cancel_order_save(t) ==
    /\ Running(t, "cancel", "save_order")
    /\ SaveOrder(tasks[t].oid, tasks[t].order)
    /\ out' = OutFor("cancel", TRUE, "cancelled", tasks[t].oid, 0, 0)
    /\ Finish(t)
    /\ UNCHANGED <<now, cfg, meals, notified>>
    /\ UNCHANGED ledger

\* ------------------------------------------------------ cmd_delete_meal
cmd_delete_meal_read(t, user, meal_id) ==
    /\ FreeTask(t)
    /\ LET vendor == VendorOf(user) IN
       IF vendor = 0
       THEN /\ out' = Out("delete_meal", FALSE, "not_vendor")
            /\ UNCHANGED tasks
       ELSE IF ActiveMeal(meal_id) = NoRow \/ meals[meal_id].vendor /= vendor
       THEN /\ out' = Out("delete_meal", FALSE, "meal_not_found")
            /\ UNCHANGED tasks
       ELSE /\ tasks' = [tasks EXCEPT ![t] =
                   Task("delete_meal", "save_meal", 0, NoRow, meal_id,
                        [meals[meal_id] EXCEPT !.is_active = FALSE])]
            /\ out' = NoOut
    /\ UNCHANGED <<now, cfg, meals, orders, notified>>
    /\ UNCHANGED ledger

cmd_delete_meal_save(t) ==
    /\ Running(t, "delete_meal", "save_meal")
    /\ SaveMeal(tasks[t].mid, tasks[t].meal)
    /\ out' = Out("delete_meal", TRUE, "deleted")
    /\ Finish(t)
    /\ UNCHANGED <<now, cfg, orders, notified>>
    /\ UNCHANGED ledger

\* ---------------------------------------------- deactivate_expired_meals
\* ascending sequence of the elements of a set of ids
RECURSIVE Ascending(_)
Ascending(S) == IF S = {} THEN <<>>
                ELSE LET m == CHOOSE x \in S : \A y \in S : x <= y
                     IN <<m>> \o Ascending(S \ {m})

\* Meal.filter(is_active=True, pickup_end_time__lt=now)
ExpiredMeals == {m \in MealIds : meals[m].is_active
                                 /\ meals[m].pickup_end_time < now}

deactivate_expired_meals_read(t) ==
    /\ FreeTask(t)
    /\ IF ExpiredMeals = {}
       THEN /\ out' = Out("deactivate", TRUE, "nothing")
            /\ UNCHANGED tasks
       ELSE /\ tasks' = [tasks EXCEPT ![t] =
                   [Task("deactivate", "save_meal", 0, NoRow, 0, NoRow)
                      EXCEPT !.batch =
                        [i \in 1..Cardinality(ExpiredMeals) |->
                           [id |-> Ascending(ExpiredMeals)[i],
                            row |-> meals[Ascending(ExpiredMeals)[i]]]]]]
            /\ out' = NoOut
    /\ UNCHANGED <<now, cfg, meals, orders, notified>>
    /\ UNCHANGED ledger

\* meal.is_active = False; meal.save()
deactivate_expired_meals_save(t) ==
    /\ Running(t, "deactivate", "save_meal")
    /\ LET item == Head(tasks[t].batch) IN
       SaveMeal(item.id, [item.row EXCEPT !.is_active = FALSE])
    /\ IF Len(tasks[t].batch) = 1
       THEN /\ out' = Out("deactivate", TRUE, "deactivated")
            /\ Finish(t)
       ELSE /\ tasks' = [tasks EXCEPT ![t].batch = Tail(@)]
            /\ out' = NoOut
    /\ UNCHANGED <<now, cfg, orders, notified>>
    /\ UNCHANGED ledger

\* ------------------------------------------------ cleanup_expired_orders
\* Order.filter(status=PENDING, created_at__lt=now - 30 minutes)
ExpiredOrders == {o \in OrderIds :
                    /\ orders[o].status = PENDING
                    /\ orders[o].created_at < now - ORDER_TIMEOUT_MINUTES}

cleanup_expired_orders_read(t) ==
    /\ FreeTask(t)
    /\ IF ExpiredOrders = {}
       THEN /\ out' = Out("cleanup", TRUE, "nothing")
            /\ UNCHANGED tasks
       ELSE /\ tasks' = [tasks EXCEPT ![t] =
                   [Task("cleanup", "save_order", 0, NoRow, 0, NoRow)
                      EXCEPT !.batch =
                        [i \in 1..Cardinality(ExpiredOrders) |->
                           [id |-> Ascending(ExpiredOrders)[i],
                            row |-> orders[Ascending(ExpiredOrders)[i]]]]]]
            /\ out' = NoOut
    /\ UNCHANGED <<now, cfg, meals, orders, notified>>
    /\ UNCHANGED ledger

\* order.status = CANCELLED; order.save()
cleanup_expired_orders_save(t) ==
    /\ Running(t, "cleanup", "save_order")
    /\ LET item == Head(tasks[t].batch) IN
       SaveOrder(item.id, [item.row EXCEPT !.status = CANCELLED])
    /\ IF Len(tasks[t].batch) = 1
       THEN /\ out' = Out("cleanup", TRUE, "cancelled")
            /\ Finish(t)
       ELSE /\ tasks' = [tasks EXCEPT ![t].batch = Tail(@)]
            /\ out' = NoOut
    /\ UNCHANGED <<now, cfg, meals, notified>>
    /\ UNCHANGED ledger

\* time passes
Tick ==
    /\ now + TickMinutes <= MaxTicks * TickMinutes
    /\ now' = now + TickMinutes
    /\ out' = NoOut
    /\ UNCHANGED <<cfg, meals, orders, notified, tasks>>
    /\ UNCHANGED ledger

\* the steps that continue a handler in flight
Continue(t) ==
    \/ \E registered \in BOOLEAN : process_buy_callback_create(t, registered)
    \/ process_buy_callback_save(t)
    \/ process_payment_webhook_save_order(t)
    \/ process_payment_webhook_save_meal(t)
    \/ process_successful_payment_save_order(t)
    \/ process_successful_payment_save_meal(t)
    \/ process_webhook_save_order(t)
    \/ process_webhook_read_meal(t)
    \/ process_webhook_save_meal(t)
    \/ cmd_complete_order_save(t)
    \/ cmd_cancel_order_save(t)
    \/ cmd_delete_meal_save(t)
    \/ deactivate_expired_meals_save(t)
    \/ cleanup_expired_orders_save(t)

\* the arrival of a request, a command or a periodic run
\* (a purchase that passes the availability test arrives only while fewer
\* than limit orders exist)
Purchase(t, limit) ==
    \E mid \in MealIds \cup {2}, count \in Counts :
        /\ \/ BuyRejected(ActiveMeal(mid), count)
           \/ Len(orders) + BuysInFlight < limit
        /\ process_buy_callback_read(t, mid, count)
Confirm(t) ==
    \/ \E data \in WebhookInputs : process_payment_webhook_read(t, data)
    \/ \E payload \in Payloads : process_successful_payment_read(t, payload)
    \/ \E data \in GatewayInputs : process_webhook_read(t, data)
Command(t) ==
    \/ \E user \in Users, order_id \in 1..(Len(orders) + 1) :
          cmd_complete_order_read(t, user, order_id)
    \/ \E user \in Users, order_id \in 1..(Len(orders) + 1) :
          cmd_cancel_order_read(t, user, order_id)
    \/ \E user \in Users, meal_id \in MealIds \cup {2} :
          cmd_delete_meal_read(t, user, meal_id)
Periodic(t) ==
    \/ deactivate_expired_meals_read(t)
    \/ cleanup_expired_orders_read(t)

\* one handler at a time: a request arrives when no handler is in flight
Next ==
    \/ Tick
    \/ \E payload \in Payloads : process_pre_checkout_query(payload)
    \/ Purchase(1, MaxPurchases)
    \/ handle_payment_webhook_malformed
    \/ Confirm(1)
    \/ Command(1)
    \/ Periodic(1)
    \/ Continue(1)

Spec == Init /\ [][Next]_vars

\* Overlapping confirmations.  MaxOrders purchases have gone through (the
\* purchase action reserves nothing, so their portions may add up to more
\* than the stock); their confirmations interleave at the awaits, MaxTasks
\* handlers at a time.
PendingOrder(oid, count) ==
    [status |-> PENDING, payment_id |-> PaymentId("TG", oid),
     quantity |-> count, created_at |-> 0, completed_at |-> NoTime,
     meal |-> 1]

InitRace ==
    /\ now = 0
    /\ cfg = NativeConfig
    /\ meals \in [MealIds -> [quantity : ListedQuantities, is_active : {TRUE},
                              pickup_end_time : {PickupEnd},
                              vendor : {OwnerVendor}, price : ListedPrices]]
    /\ \E counts \in [1..MaxOrders -> {1, 2}] :
          orders = [o \in 1..MaxOrders |-> PendingOrder(o, counts[o])]
    /\ notified = [o \in 1..MaxOrders |-> 0]
    /\ tasks = [t \in TaskIds |-> Idle]
    /\ out = NoOut
    /\ earnings = <<>>
    /\ commissions = <<>>
    /\ payouts = <<>>

ContinueRace(t) ==
    \/ process_payment_webhook_save_order(t)
    \/ process_payment_webhook_save_meal(t)
    \/ process_successful_payment_save_order(t)
    \/ process_successful_payment_save_meal(t)
    \/ process_webhook_save_order(t)
    \/ process_webhook_read_meal(t)
    \/ process_webhook_save_meal(t)

NextRace == \E t \in TaskIds : Confirm(t) \/ ContinueRace(t)

SpecRace == InitRace /\ [][NextRace]_vars

\* ------------------------------------------------------- earnings ledger
\* Amounts are counted in hundredths of a tenge, rates in ten-thousandths.
RateScale == 10000
\* Decimal('0.15'), the rate used when no commission row exists
DefaultCommissionRate == 1500

\* DATABASE_URL: PostgreSQL, or in-memory SQLite under TESTING
Databases == {"postgres", "sqlite"}

\* Decimal arithmetic is exact.  A value is held as units hundredths plus
\* frac / RateScale of a hundredth, 0 <= frac < RateScale.
Exact(units, frac) == [units |-> units, frac |-> frac]
\* amount * rate, for an amount in hundredths and a rate in 1/RateScale
Times(amount, rate) ==
    LET low == (amount % RateScale) * rate
    IN  Exact((amount \div RateScale) * rate + low \div RateScale,
              low % RateScale)
\* a difference that deducts nothing
MinusNothing(amount, x) == Exact(amount, 0)

\* amount - x, for an amount in hundredths
Minus(amount, x) ==
    IF x.frac = 0 THEN Exact(amount - x.units, 0)
    ELSE Exact(amount - x.units - 1, RateScale - x.frac)

\* What a DecimalField(decimal_places=2) column holds for the value x.
\* PostgreSQL rounds a NUMERIC(10,2) half away from zero on insert; with
\* SQLite the value is quantized by the ORM when the row is read, half to
\* even.
Quantize(x, database) ==
    IF 2 * x.frac < RateScale THEN x.units
    ELSE IF 2 * x.frac > RateScale THEN x.units + 1
    ELSE IF database = "postgres" THEN x.units + 1
    ELSE IF x.units % 2 = 0 THEN x.units ELSE x.units + 1

\* ids of the commission rows that are in force: effective_from <= now and
\* effective_to null
ActiveCommissions ==
    {c \in 1..Len(commissions) : /\ commissions[c].effective_from <= now
                                 /\ commissions[c].effective_to = NoTime}
\* Commission.all().order_by('-effective_from').first()
LatestCommission ==
    CHOOSE c \in 1..Len(commissions) :
        \A d \in 1..Len(commissions) :
            \/ commissions[d].effective_from < commissions[c].effective_from
            \/ (commissions[d].effective_from = commissions[c].effective_from
                /\ c <= d)

get_current_commission_rate ==
    IF ActiveCommissions /= {}
    THEN commissions[CHOOSE c \in ActiveCommissions :
                        \A d \in ActiveCommissions : c <= d].commission_rate
    ELSE IF Len(commissions) > 0
    THEN commissions[LatestCommission].commission_rate
    ELSE DefaultCommissionRate

\* VendorEarnings.filter(order=order).first()
EarningsOf(order_id) ==
    {e \in 1..Len(earnings) : earnings[e].order = order_id}

\* (year, month) of an instant: the month turns at minute MonthEnd
Periods == {<<2024, 12>>, <<2025, 1>>}
PeriodOf(time) == IF time < MonthEnd THEN <<2024, 12>> ELSE <<2025, 1>>

\* a row whose rate is looked up again at the insert
EarningsRowAtInsert(order_id, order, meal, commission_rate) ==
    LET gross_amount == meal.price * order.quantity
        completed_date == IF order.completed_at /= NoTime
                          THEN order.completed_at ELSE order.created_at
        commission_amount == Times(gross_amount, get_current_commission_rate)
        net_amount == Minus(gross_amount, commission_amount)
    IN  [vendor |-> meal.vendor, order |-> order_id,
         gross_amount |-> gross_amount,
         commission_rate |-> get_current_commission_rate,
         commission_amount |-> Quantize(commission_amount, cfg.database),
         net_amount |-> Quantize(net_amount, cfg.database),
         period_year |-> PeriodOf(completed_date)[1],
         period_month |-> PeriodOf(completed_date)[2],
         is_paid_out |-> FALSE, paid_out_at |-> NoTime]

\* the row VendorEarnings.create(...) leaves in the table
EarningsRow(order_id, order, meal, commission_rate) ==
    LET gross_amount == meal.price * order.quantity
        completed_date == IF order.completed_at /= NoTime
                          THEN order.completed_at ELSE order.created_at
        commission_amount == Times(gross_amount, commission_rate)
        net_amount == Minus(gross_amount, commission_amount)
    IN  [vendor |-> meal.vendor, order |-> order_id,
         gross_amount |-> gross_amount,
         commission_rate |-> commission_rate,
         commission_amount |-> Quantize(commission_amount, cfg.database),
         net_amount |-> Quantize(net_amount, cfg.database),
         period_year |-> PeriodOf(completed_date)[1],
         period_month |-> PeriodOf(completed_date)[2],
         is_paid_out |-> FALSE, paid_out_at |-> NoTime]

\* order.fetch_related('meal', 'meal__vendor');
\* if order.status != OrderStatus.COMPLETED: return None
calculate_and_record_earnings_call(t, order_id) ==
    /\ FreeTask(t)
    /\ order_id \in OrderIds
    /\ IF orders[order_id].status /= COMPLETED
       THEN /\ out' = OutFor("earnings", FALSE, "not_completed", order_id, 0, 0)
            /\ UNCHANGED tasks
       ELSE /\ tasks' = [tasks EXCEPT ![t] =
                   Task("earnings", "exists", order_id, orders[order_id],
                        orders[order_id].meal,
                        meals[orders[order_id].meal])]
            /\ out' = NoOut
    /\ UNCHANGED <<now, cfg, meals, orders, notified, ledger>>

\* existing_earnings = await VendorEarnings.filter(order=order).first();
\* if existing_earnings: return existing_earnings
calculate_and_record_earnings_exists(t) ==
    /\ Running(t, "earnings", "exists")
    /\ IF EarningsOf(tasks[t].oid) /= {}
       THEN /\ out' = OutFor("earnings", TRUE, "existing", tasks[t].oid, 0, 0)
            /\ Finish(t)
       ELSE /\ tasks' = [tasks EXCEPT ![t].pc = "rate"]
            /\ out' = NoOut
    /\ UNCHANGED <<now, cfg, meals, orders, notified, ledger>>

\* gross_amount = order.meal.price * order.quantity;
\* commission_rate = await get_current_commission_rate()
calculate_and_record_earnings_rate(t) ==
    /\ Running(t, "earnings", "rate")
    /\ tasks' = [tasks EXCEPT ![t].pc = "create",
                              ![t].rate = get_current_commission_rate]
    /\ out' = NoOut
    /\ UNCHANGED <<now, cfg, meals, orders, notified, ledger>>

\* earnings = await VendorEarnings.create(...); track_metric; return earnings
calculate_and_record_earnings_create(t) ==
    /\ Running(t, "earnings", "create")
    /\ earnings' = Append(earnings,
                          EarningsRow(tasks[t].oid, tasks[t].order,
                                      tasks[t].meal, tasks[t].rate))
    /\ out' = OutFor("earnings", TRUE, "created", tasks[t].oid, 0, 0)
    /\ Finish(t)
    /\ UNCHANGED <<now, cfg, meals, orders, notified, commissions, payouts>>

\* -------------------------------------------------- commission structure
CommissionRow(rate, from, to) ==
    [commission_rate |-> rate, effective_from |-> from, effective_to |-> to]

\* if not await Commission.all().first(): Commission.create(0.15, from now)
initialize_commission_structure ==
    /\ commissions = <<>>
    /\ commissions' = <<CommissionRow(DefaultCommissionRate, now, NoTime)>>
    /\ out' = NoOut
    /\ UNCHANGED <<now, cfg, meals, orders, notified, tasks, earnings, payouts>>

\* No code of the application writes a further commission row: a new rate
\* is entered in the table by hand.  The row in force is closed at the
\* current instant and the new one starts there.
NewRates == {2000}
supersede_commission(rate) ==
    /\ Len(commissions) < MaxCommissions
    /\ commissions' =
          Append([c \in 1..Len(commissions) |->
                     IF commissions[c].effective_to = NoTime
                     THEN [commissions[c] EXCEPT !.effective_to = now]
                     ELSE commissions[c]],
                 CommissionRow(rate, now, NoTime))
    /\ out' = NoOut
    /\ UNCHANGED <<now, cfg, meals, orders, notified, tasks, earnings, payouts>>

\* The ledger on its own: one order in any status, the meal at a price of
\* LedgerPrices, a commission table of CommissionTables; calls of
\* calculate_and_record_earnings interleave at their awaits with each other
\* and with /complete_order and /cancel_order, MaxTasks handlers at a time.
LedgerPrices == {5, 10, 150000}
CommissionTables ==
    {<<>>,
     <<CommissionRow(1000, 0, NoTime)>>,
     <<CommissionRow(1250, 0, 0), CommissionRow(0, TickMinutes, NoTime)>>,
     <<CommissionRow(RateScale, 0, 0)>>,
     <<CommissionRow(1000, 0, TickMinutes),
       CommissionRow(2000, TickMinutes, NoTime)>>}

LedgerOrder(status, count) ==
    [PendingOrder(1, count) EXCEPT
        !.status = status,
        !.completed_at = IF status = COMPLETED THEN 0 ELSE NoTime]

InitLedger ==
    /\ now = 0
    /\ cfg \in {Config(TRUE, ProviderToken, TRUE, d) : d \in Databases}
    /\ meals \in [MealIds -> [quantity : ListedQuantities, is_active : {TRUE},
                              pickup_end_time : {PickupEnd},
                              vendor : {OwnerVendor}, price : LedgerPrices]]
    /\ \E status \in {PENDING, PAID, COMPLETED, CANCELLED}, count \in {1, 2} :
          orders = <<LedgerOrder(status, count)>>
    /\ notified = <<0>>
    /\ tasks = [t \in TaskIds |-> Idle]
    /\ out = NoOut
    /\ earnings = <<>>
    /\ commissions \in CommissionTables
    /\ payouts = <<>>

NextLedger ==
    \E t \in TaskIds :
        \/ \E order_id \in OrderIds :
              calculate_and_record_earnings_call(t, order_id)
        \/ calculate_and_record_earnings_exists(t)
        \/ calculate_and_record_earnings_rate(t)
        \/ calculate_and_record_earnings_create(t)
        \/ initialize_commission_structure
        \/ \E rate \in NewRates : supersede_commission(rate)
        \/ \E user \in Users, order_id \in OrderIds :
              cmd_complete_order_read(t, user, order_id)
        \/ cmd_complete_order_save(t)
        \/ \E user \in Users, order_id \in OrderIds :
              cmd_cancel_order_read(t, user, order_id)
        \/ cmd_cancel_order_save(t)

SpecLedger == InitLedger /\ [][NextLedger]_vars

\* ------------------------------------------------------- payout requests
\* PayoutStatus
PayoutPending == "pending"
PayoutCompleted == "completed"
\* external_transaction_id: str = None
NoTransaction == "None"
ExternalIds == {NoTransaction, "TX-1"}
\* vendors the payout functions are called for
Vendors == {OwnerVendor, 2}

\* VendorEarnings.filter(vendor=vendor, period_year=year, period_month=month)
PeriodEarnings(vendor, period) ==
    {e \in 1..Len(earnings) : /\ earnings[e].vendor = vendor
                              /\ earnings[e].period_year = period[1]
                              /\ earnings[e].period_month = period[2]}
\* every earnings row of the period, paid out or not
AllEarnings(vendor, period) == PeriodEarnings(vendor, period)

\* the same query with is_paid_out=False
UnpaidEarnings(vendor, period) ==
    {e \in PeriodEarnings(vendor, period) : ~earnings[e].is_paid_out}

\* sum(e.net_amount for e in earnings)
RECURSIVE TotalNet(_)
TotalNet(S) == IF S = {} THEN 0
               ELSE LET e == CHOOSE x \in S : TRUE
                    IN earnings[e].net_amount + TotalNet(S \ {e})

\* get_vendor_monthly_earnings(vendor, year, month)["total_net"]
get_vendor_monthly_earnings(vendor, period) ==
    TotalNet(PeriodEarnings(vendor, period))

\* PayoutRequest.filter(vendor=vendor, period_year=year, period_month=month)
PayoutsOf(vendor, period) ==
    {p \in 1..Len(payouts) : /\ payouts[p].vendor = vendor
                             /\ payouts[p].period_year = period[1]
                             /\ payouts[p].period_month = period[2]}

\* a table that accepts any row
PayoutUnconstrained(vendor, period) == TRUE

\* unique_together = ("vendor", "period_year", "period_month")
PayoutUnique(vendor, period) == PayoutsOf(vendor, period) = {}

PayoutRow(vendor, period, amount) ==
    [vendor |-> vendor, amount |-> amount, status |-> PayoutPending,
     period_year |-> period[1], period_month |-> period[2],
     external_transaction_id |-> NoTransaction, completed_at |-> NoTime]

\* existing_request = await PayoutRequest.filter(...).first();
\* if existing_request: return existing_request
create_monthly_payout_request_exists(t, vendor, period) ==
    /\ FreeTask(t)
    /\ IF PayoutsOf(vendor, period) /= {}
       THEN /\ out' = OutFor("payout", TRUE, "existing",
                             CHOOSE p \in PayoutsOf(vendor, period) : TRUE,
                             0, 0)
            /\ UNCHANGED tasks
       ELSE /\ tasks' = [tasks EXCEPT ![t] =
                   [Task("payout", "summary", 0, NoRow, 0, NoRow)
                       EXCEPT !.vendor = vendor, !.period = period]]
            /\ out' = NoOut
    /\ UNCHANGED <<now, cfg, meals, orders, notified, ledger>>

\* earnings_summary = await get_vendor_monthly_earnings(vendor, year, month);
\* if earnings_summary.get("total_net", 0) <= 0: return None
create_monthly_payout_request_summary(t) ==
    /\ Running(t, "payout", "summary")
    /\ LET total_net == get_vendor_monthly_earnings(tasks[t].vendor,
                                                    tasks[t].period)
       IN  IF total_net <= 0
           THEN /\ out' = Out("payout", FALSE, "nothing")
                /\ Finish(t)
           ELSE /\ tasks' = [tasks EXCEPT ![t].pc = "create",
                                          ![t].amount = total_net]
                /\ out' = NoOut
    /\ UNCHANGED <<now, cfg, meals, orders, notified, ledger>>

\* payout_request = await PayoutRequest.create(...); the insert of a second
\* row for the vendor and period raises, and the function returns None
create_monthly_payout_request_create(t) ==
    /\ Running(t, "payout", "create")
    /\ IF PayoutUnique(tasks[t].vendor, tasks[t].period)
       THEN /\ payouts' = Append(payouts,
                                 PayoutRow(tasks[t].vendor, tasks[t].period,
                                           tasks[t].amount))
            /\ out' = OutFor("payout", TRUE, "created", Len(payouts) + 1, 0, 0)
       ELSE /\ out' = Out("payout", FALSE, "error")
            /\ UNCHANGED payouts
    /\ Finish(t)
    /\ UNCHANGED <<now, cfg, meals, orders, notified, earnings, commissions>>

\* an earnings object marked without a date
MarkedPaidOutUndated(row, time) == [row EXCEPT !.is_paid_out = TRUE]

\* an earnings object marked and emptied of its net amount
MarkedPaidOutAndCleared(row, time) ==
    [row EXCEPT !.is_paid_out = TRUE, !.paid_out_at = time, !.net_amount = 0]

\* earning.is_paid_out = True; earning.paid_out_at = current_time
MarkedPaidOut(row, time) ==
    [row EXCEPT !.is_paid_out = TRUE, !.paid_out_at = time]

\* current_time = get_current_almaty_time();
\* earnings = await VendorEarnings.filter(..., is_paid_out=False).all();
\* if not earnings: return False
mark_earnings_as_paid_read(t, vendor, period, external_transaction_id) ==
    /\ FreeTask(t)
    /\ IF UnpaidEarnings(vendor, period) = {}
       THEN /\ out' = OutFor("mark_paid", FALSE, "no_unpaid",
                             IF PayoutsOf(vendor, period) = {} THEN 0
                             ELSE CHOOSE p \in PayoutsOf(vendor, period) : TRUE,
                             0, 0)
            /\ UNCHANGED tasks
       ELSE /\ tasks' = [tasks EXCEPT ![t] =
                   [Task("mark_paid", "save_earning", 0, NoRow, 0, NoRow)
                       EXCEPT !.vendor = vendor, !.period = period,
                              !.time = now,
                              !.payment_id = external_transaction_id,
                              !.count = 1,
                              !.batch =
                                 LET ids == Ascending(
                                               UnpaidEarnings(vendor, period))
                                 IN [i \in 1..Len(ids) |->
                                       [id |-> ids[i],
                                        row |-> earnings[ids[i]]]]]]
            /\ out' = NoOut
    /\ UNCHANGED <<now, cfg, meals, orders, notified, ledger>>

\* for earning in earnings: ...; await earning.save()
mark_earnings_as_paid_save_earning(t) ==
    /\ Running(t, "mark_paid", "save_earning")
    /\ LET item == tasks[t].batch[tasks[t].count] IN
       earnings' = [earnings EXCEPT ![item.id] =
                       MarkedPaidOut(item.row, tasks[t].time)]
    /\ tasks' = [tasks EXCEPT
          ![t].count = @ + 1,
          ![t].pc = IF tasks[t].count = Len(tasks[t].batch)
                    THEN "request" ELSE "save_earning"]
    /\ out' = NoOut
    /\ UNCHANGED <<now, cfg, meals, orders, notified, commissions, payouts>>

\* payout_request = await PayoutRequest.filter(...).first();
\* if payout_request: status, completed_at, external_transaction_id
mark_earnings_as_paid_read_request(t) ==
    /\ Running(t, "mark_paid", "request")
    /\ LET found == PayoutsOf(tasks[t].vendor, tasks[t].period) IN
       IF found = {}
       THEN /\ out' = Out("mark_paid", TRUE, "paid")
            /\ Finish(t)
       ELSE LET p == CHOOSE x \in found : TRUE IN
            /\ tasks' = [tasks EXCEPT
                  ![t].pc = "save_request",
                  ![t].oid = p,
                  ![t].order =
                     [payouts[p] EXCEPT
                        !.status = PayoutCompleted,
                        !.completed_at = tasks[t].time,
                        !.external_transaction_id =
                           IF tasks[t].payment_id /= NoTransaction
                           THEN tasks[t].payment_id ELSE @]]
            /\ out' = NoOut
    /\ UNCHANGED <<now, cfg, meals, orders, notified, ledger>>

\* await payout_request.save(); track_metric; return True
mark_earnings_as_paid_save_request(t) ==
    /\ Running(t, "mark_paid", "save_request")
    /\ payouts' = [payouts EXCEPT ![tasks[t].oid] = tasks[t].order]
    /\ out' = OutFor("mark_paid", TRUE, "paid", tasks[t].oid, 0, 0)
    /\ Finish(t)
    /\ UNCHANGED <<now, cfg, meals, orders, notified, earnings, commissions>>

\* The ledger and the payouts: MaxOrders COMPLETED orders of the vendor's
\* meal, each in one of the two months; the earnings of the orders are
\* recorded, payouts requested and marked paid in any order.
PayoutOrder(oid, completed_at) ==
    [PendingOrder(oid, 1) EXCEPT !.status = COMPLETED,
                                 !.completed_at = completed_at]

InitPayout ==
    /\ now = MonthEnd
    /\ cfg = NativeConfig
    /\ meals \in [MealIds -> [quantity : ListedQuantities, is_active : {TRUE},
                              pickup_end_time : {PickupEnd},
                              vendor : {OwnerVendor}, price : ListedPrices]]
    /\ \E done \in [1..MaxOrders -> {0, MonthEnd}] :
          orders = [o \in 1..MaxOrders |-> PayoutOrder(o, done[o])]
    /\ notified = [o \in 1..MaxOrders |-> 1]
    /\ tasks = [t \in TaskIds |-> Idle]
    /\ out = NoOut
    /\ earnings = <<>>
    /\ commissions \in {<<>>, <<CommissionRow(RateScale, 0, NoTime)>>}
    /\ payouts = <<>>

Payout(t) ==
    \/ \E order_id \in OrderIds :
          calculate_and_record_earnings_call(t, order_id)
    \/ calculate_and_record_earnings_exists(t)
    \/ calculate_and_record_earnings_rate(t)
    \/ calculate_and_record_earnings_create(t)
    \/ \E vendor \in Vendors, period \in Periods :
          create_monthly_payout_request_exists(t, vendor, period)
    \/ create_monthly_payout_request_summary(t)
    \/ create_monthly_payout_request_create(t)
    \/ \E vendor \in Vendors, period \in Periods,
          external_transaction_id \in ExternalIds :
          mark_earnings_as_paid_read(t, vendor, period,
                                     external_transaction_id)
    \/ mark_earnings_as_paid_save_earning(t)
    \/ mark_earnings_as_paid_read_request(t)
    \/ mark_earnings_as_paid_save_request(t)

\* one function at a time
NextPayout == Payout(1)
SpecPayout == InitPayout /\ [][NextPayout]_vars

\* Payout requests that interleave at their awaits, MaxTasks at a time; the
\* earnings of the orders have been recorded.
InitPayoutRace ==
    /\ now = MonthEnd
    /\ cfg = NativeConfig
    /\ meals \in [MealIds -> [quantity : ListedQuantities, is_active : {TRUE},
                              pickup_end_time : {PickupEnd},
                              vendor : {OwnerVendor}, price : ListedPrices]]
    /\ \E done \in [1..MaxOrders -> {0, MonthEnd}] :
          orders = [o \in 1..MaxOrders |-> PayoutOrder(o, done[o])]
    /\ notified = [o \in 1..MaxOrders |-> 1]
    /\ tasks = [t \in TaskIds |-> Idle]
    /\ out = NoOut
    /\ commissions = <<>>
    /\ earnings = [o \in 1..MaxOrders |->
                     EarningsRow(o, orders[o], meals[orders[o].meal],
                                 DefaultCommissionRate)]
    /\ payouts = <<>>

NextPayoutRace ==
    \E t \in TaskIds :
        \/ \E vendor \in Vendors, period \in Periods :
              create_monthly_payout_request_exists(t, vendor, period)
        \/ create_monthly_payout_request_summary(t)
        \/ create_monthly_payout_request_create(t)

SpecPayoutRace == InitPayoutRace /\ [][NextPayoutRace]_vars

\* -------------------------------------------------------- create_payment
NoUrl == <<>>
\* f"{amount}" of a Decimal with two places
FormatAmount(amount) ==
    FormatInt(amount \div 100)
    \o <<".", Digit[((amount % 100) \div 10) + 1], Digit[(amount % 10) + 1]>>
\* f"TG-{order_id}-{int(uuid.uuid4())}", f"EXT-{order_id}-{int(uuid.uuid4())}"
FormatPaymentId(payment_id) ==
    <<payment_id.backend, "-">> \o FormatInt(payment_id.order)
    \o <<"-", "uuid">>
\* f"{success_url}?order_id={order_id}&payment_id={payment_id}"
Redirect(url, order_id, payment_id) ==
    <<url, "?order_id=">> \o FormatInt(order_id)
    \o <<"&payment_id=">> \o FormatPaymentId(payment_id)
\* f"{base_url}/pay?order_id=...&amount=...&payment_id=...&success_url=...
\* &failure_url=..."
PaymentUrl(order_id, amount, payment_id) ==
    <<"PAYMENT_GATEWAY_URL", "/pay?order_id=">> \o FormatInt(order_id)
    \o <<"&amount=">> \o FormatAmount(amount)
    \o <<"&payment_id=">> \o FormatPaymentId(payment_id)
    \o <<"&success_url=">>
    \o Redirect("PAYMENT_SUCCESS_URL", order_id, payment_id)
    \o <<"&failure_url=">>
    \o Redirect("PAYMENT_FAILURE_URL", order_id, payment_id)

\* PaymentGateway.create_payment(order_id, amount): (payment_id, payment_url)
create_payment(order_id, amount) ==
    IF is_telegram_payments_available
    THEN [payment_id |-> PaymentId("TG", order_id), payment_url |-> NoUrl]
    ELSE IF ~cfg.enabled
    THEN [payment_id |-> NoPaymentId, payment_url |-> NoUrl]
    ELSE [payment_id |-> PaymentId("EXT", order_id),
          payment_url |-> PaymentUrl(order_id, amount,
                                     PaymentId("EXT", order_id))]

\* a call of create_payment on its own
create_payment_call(order_id, amount) ==
    /\ out' = [OutFor("create_payment",
                      create_payment(order_id, amount).payment_id
                         /= NoPaymentId,
                      "returned", order_id, 0, 0)
                 EXCEPT !.payment =
                    [order_id |-> order_id, amount |-> amount,
                     result |-> create_payment(order_id, amount)]]
    /\ UNCHANGED <<now, cfg, meals, orders, notified, tasks, ledger>>

\* create_payment under every setting of the two backends
PaymentAmounts == {5, 150000, 300000}
InitPayment ==
    /\ now = 0
    /\ cfg \in {Config(e, token, g, "postgres") :
                  e \in BOOLEAN, token \in ProviderTokens, g \in BOOLEAN}
    /\ meals \in [MealIds -> [quantity : ListedQuantities, is_active : {TRUE},
                              pickup_end_time : {PickupEnd},
                              vendor : {OwnerVendor}, price : ListedPrices]]
    /\ orders = <<>>
    /\ notified = <<>>
    /\ tasks = [t \in TaskIds |-> Idle]
    /\ out = NoOut
    /\ earnings = <<>>
    /\ commissions = <<>>
    /\ payouts = <<>>

NextPayment ==
    \E order_id \in 1..(MaxOrders + 1), amount \in PaymentAmounts :
        create_payment_call(order_id, amount)

SpecPayment == InitPayment /\ [][NextPayment]_vars

\* ------------------------------------------------- the running application
\* periodic_task_runner: while True: deactivate_expired_meals(); sleep(600).
\* It is the only caller of a scheduled task: cleanup_expired_orders is in
\* the scheduled_tasks dictionary and nothing calls it.
periodic_task_runner(t) ==
    \/ deactivate_expired_meals_read(t)
    \/ deactivate_expired_meals_save(t)

\* the steps that continue a handler of the application in flight
ContinueApp(t) ==
    \/ \E registered \in BOOLEAN : process_buy_callback_create(t, registered)
    \/ process_buy_callback_save(t)
    \/ process_payment_webhook_save_order(t)
    \/ process_payment_webhook_save_meal(t)
    \/ process_successful_payment_save_order(t)
    \/ process_successful_payment_save_meal(t)
    \/ cmd_complete_order_save(t)
    \/ cmd_cancel_order_save(t)

\* the requests the dispatcher and the webhook route hand to handlers
ConfirmApp(t) ==
    \/ \E data \in WebhookInputs : process_payment_webhook_read(t, data)
    \/ \E payload \in Payloads : process_successful_payment_read(t, payload)
CommandApp(t) ==
    \/ \E user \in Users, order_id \in 1..(Len(orders) + 1) :
          cmd_complete_order_read(t, user, order_id)
    \/ \E user \in Users, order_id \in 1..(Len(orders) + 1) :
          cmd_cancel_order_read(t, user, order_id)

NextApp ==
    \/ Tick
    \/ Purchase(1, MaxPurchases)
    \/ ConfirmApp(1)
    \/ CommandApp(1)
    \/ periodic_task_runner(1)
    \/ ContinueApp(1)

\* The event loop runs every coroutine that is ready: a handler in flight
\* goes on, the runner's loop goes on, and time passes.  Requests of users
\* may or may not arrive.
SpecApp ==
    /\ Init /\ [][NextApp]_vars
    /\ WF_vars(Tick)
    /\ WF_vars(ContinueApp(1))
    /\ WF_vars(periodic_task_runner(1))

\* ------------------------------------------------ failures while applying
\* An await on the database raises (meal.save() loses its connection).  The
\* handlers hold no transaction: the except clause logs and returns, and
\* what was saved before stays saved.
process_payment_webhook_raises(t) ==
    /\ Running(t, "webhook", "save_meal")
    /\ out' = OutFor("webhook", FALSE, "error", tasks[t].oid, tasks[t].mid,
                     tasks[t].order.quantity)
    /\ Finish(t)
    /\ UNCHANGED <<now, cfg, meals, orders, notified>>
    /\ UNCHANGED ledger

process_successful_payment_raises(t) ==
    /\ Running(t, "native", "save_meal")
    /\ out' = OutFor("native", FALSE, "error", tasks[t].oid, tasks[t].mid,
                     tasks[t].order.quantity)
    /\ Finish(t)
    /\ UNCHANGED <<now, cfg, meals, orders, notified>>
    /\ UNCHANGED ledger

\* confirmations of MaxOrders PENDING orders, one handler at a time, each
\* of which may fail at its meal.save()
ContinueFault(t) ==
    \/ process_payment_webhook_save_order(t)
    \/ process_payment_webhook_save_meal(t)
    \/ process_payment_webhook_raises(t)
    \/ process_successful_payment_save_order(t)
    \/ process_successful_payment_save_meal(t)
    \/ process_successful_payment_raises(t)

NextFault == ConfirmApp(1) \/ ContinueFault(1)

SpecFault == InitRace /\ [][NextFault]_vars

\* ------------------------------------------- cleanup against confirmation
\* MaxOrders orders are PENDING past the timeout; cleanup_expired_orders
\* runs while their confirmations arrive, MaxTasks coroutines at a time.
InitCleanup ==
    /\ now = MaxTicks * TickMinutes
    /\ cfg = NativeConfig
    /\ meals \in [MealIds -> [quantity : ListedQuantities, is_active : {TRUE},
                              pickup_end_time : {PickupEnd},
                              vendor : {OwnerVendor}, price : ListedPrices]]
    /\ \E counts \in [1..MaxOrders -> {1, 2}] :
          orders = [o \in 1..MaxOrders |-> PendingOrder(o, counts[o])]
    /\ notified = [o \in 1..MaxOrders |-> 0]
    /\ tasks = [t \in TaskIds |-> Idle]
    /\ out = NoOut
    /\ earnings = <<>>
    /\ commissions = <<>>
    /\ payouts = <<>>

NextCleanup ==
    \E t \in TaskIds :
        \/ cleanup_expired_orders_read(t)
        \/ cleanup_expired_orders_save(t)
        \/ ConfirmApp(t)
        \/ process_payment_webhook_save_order(t)
        \/ process_payment_webhook_save_meal(t)
        \/ process_successful_payment_save_order(t)
        \/ process_successful_payment_save_meal(t)

SpecCleanup == InitCleanup /\ [][NextCleanup]_vars

\* ------------------------------------------------- purchases, then payment
\* MaxOrders purchases of one meal through the external backend, each
\* followed sooner or later by its provider's webhook; one handler at a time.
ExternalConfig == Config(FALSE, NoToken, TRUE, "postgres")

InitSale ==
    /\ now = 0
    /\ cfg = ExternalConfig
    /\ meals \in [MealIds -> [quantity : ListedQuantities, is_active : {TRUE},
                              pickup_end_time : {PickupEnd},
                              vendor : {OwnerVendor}, price : ListedPrices]]
    /\ orders = <<>>
    /\ notified = <<>>
    /\ tasks = [t \in TaskIds |-> Idle]
    /\ out = NoOut
    /\ earnings = <<>>
    /\ commissions = <<>>
    /\ payouts = <<>>

NextSale ==
    \/ Purchase(1, MaxOrders)
    \/ \E registered \in BOOLEAN : process_buy_callback_create(1, registered)
    \/ process_buy_callback_save(1)
    \/ \E data \in WebhookInputs : process_payment_webhook_read(1, data)
    \/ process_payment_webhook_save_order(1)
    \/ process_payment_webhook_save_meal(1)

SpecSale == InitSale /\ [][NextSale]_vars

\* ------------------------------------------------------------------ claims
Edge(o) == <<orders[o].status, orders'[o].status>>
AllowedEdges == {<<PENDING, PAID>>, <<PAID, COMPLETED>>, <<PENDING, CANCELLED>>}

\* C1: every order starts PENDING and every later change of its status is
\* one of PENDING -> PAID, PAID -> COMPLETED, PENDING -> CANCELLED, whatever
\* operation makes it.
C1_StatusSequence ==
    [][/\ \A o \in OrderIds :
            orders'[o].status /= orders[o].status => Edge(o) \in AllowedEdges
       /\ \A o \in (1..Len(orders')) \ OrderIds : orders'[o].status = PENDING
      ]_vars

\* the confirmation of order o, as the provider and the chat platform send it
WebhookOf(o) == [payment_id |-> orders[o].payment_id, status |-> "completed",
                 order_id |-> 0, signature |-> "valid"]

\* C2: a confirmation applied to a PENDING order decrements the meal by the
\* order's portions (floored at zero) and notifies once; the same
\* confirmation delivered again right after it is answered as a duplicate,
\* starts no handler and leaves orders, meals and notifications as they are.
C2_SecondConfirmationIsNoOp ==
    [][\A o \in OrderIds :
        /\ (/\ tasks[1].oid = o
            /\ \/ process_payment_webhook_save_meal(1)
               \/ process_successful_payment_save_meal(1))
           => /\ orders'[o].status = PAID
              /\ notified'[o] = 1
              /\ meals'[orders[o].meal].quantity =
                    Max(0, meals[orders[o].meal].quantity - orders[o].quantity)
        /\ (/\ out.path = "applied" /\ out.oid = o
            /\ \/ out.op = "webhook"
                  /\ process_payment_webhook_read(1, WebhookOf(o))
               \/ out.op = "native"
                  /\ process_successful_payment_read(1, payment_payload(o)))
           => /\ out'.path = "duplicate" /\ out'.oid = o
              /\ UNCHANGED <<orders, meals, notified, tasks>>
      ]_vars

C2_Witness ==
    /\ out.path = "duplicate" /\ out.op \in {"webhook", "native"}
    /\ orders[out.oid].status = PAID
    /\ notified[out.oid] = 1
    /\ meals[out.mid].quantity < 2

\* a step of a confirmation handler that concerns order o
ConfirmationStepOn(o) ==
    \/ process_payment_webhook_read(1, WebhookOf(o))
    \/ process_successful_payment_read(1, payment_payload(o))
    \/ \E pid \in {UnknownPaymentId} :
          process_webhook_read(1, [payment_id |-> pid, status |-> "completed",
                                   order_id |-> o, signature |-> "valid"])
    \/ tasks[1].kind \in {"webhook", "native", "gateway"} /\ tasks[1].oid = o
          /\ ContinueRace(1)

\* C3: a "completed" confirmation for a CANCELLED order is a no-op through
\* process_payment_webhook, PaymentGateway.process_webhook and
\* process_successful_payment: status, payment_id and the meal's quantity stay.
C3_CancelledStaysCancelled ==
    [][\A o \in OrderIds :
        /\ orders[o].status = CANCELLED /\ orders[o].quantity >= 1
        /\ ConfirmationStepOn(o)
        => /\ orders'[o].status = CANCELLED
           /\ orders'[o].payment_id = orders[o].payment_id
           /\ meals'[orders[o].meal].quantity = meals[orders[o].meal].quantity
      ]_vars

\* C4: a "completed" confirmation processed for a PENDING order of q portions
\* on a meal holding n >= q reports success, makes the order PAID with the
\* confirmation's payment_id, and leaves the meal with n - q.
C4_ConfirmationApplies ==
    [][LET o == tasks[1].oid
           m == tasks[1].mid
       IN /\ (/\ \/ process_payment_webhook_save_order(1)
                  \/ process_webhook_save_order(1)
               /\ orders[o].status = PENDING)
             => /\ orders'[o].status = PAID
                /\ orders'[o].payment_id = tasks[1].payment_id
          /\ (/\ \/ process_payment_webhook_save_meal(1)
                  \/ process_webhook_save_meal(1)
               /\ meals[m].quantity >= orders[o].quantity)
             => /\ out'.ok
                /\ orders'[o].status = PAID
                /\ orders'[o].payment_id = tasks[1].payment_id
                /\ meals'[m].quantity = meals[m].quantity - orders[o].quantity
      ]_vars

C4_Witness ==
    /\ out.path = "applied" /\ out.op \in {"webhook", "gateway"} /\ out.ok
    /\ out.count >= 1
    /\ orders[out.oid].status = PAID
    /\ meals[out.mid].quantity + out.count \in ListedQuantities

\* C5: every meal's remaining quantity is >= 0 in every reachable state, also
\* when confirmations of different orders on one meal interleave and their
\* portions together exceed what is left.
C5_QuantityNeverNegative == \A m \in MealIds : meals[m].quantity >= 0

C5_Witness ==
    \E t \in TaskIds :
        /\ tasks[t].pc = "save_meal"
        /\ out.path = "applied" /\ out.oid /= tasks[t].oid
        /\ out.mid = tasks[t].mid
        /\ tasks[t].order.quantity > meals[tasks[t].mid].quantity
        /\ tasks[t].meal.quantity > meals[tasks[t].mid].quantity

\* C6: an order moves from PENDING to PAID only while its meal is active,
\* holds at least the order's portions and its pickup window has not elapsed;
\* stated here for the external webhook path, process_payment_webhook, and
\* for orders of at least one portion placed before the pickup end.
C6_PaidOnlyWhileAvailable ==
    [][\A o \in OrderIds :
        /\ orders[o].status = PENDING /\ orders'[o].status = PAID
        /\ orders[o].quantity >= 1
        /\ orders[o].created_at < meals[orders[o].meal].pickup_end_time
        /\ process_payment_webhook_save_order(1)
        => LET meal == meals[orders[o].meal]
           IN /\ meal.is_active
              /\ meal.quantity >= orders[o].quantity
              /\ meal.pickup_end_time > now
      ]_vars

\* the conditions under which the pre-checkout query is to be approved
PreCheckoutConditions(payload) ==
    LET oid == ParseOrderId(payload) IN
    /\ oid /= ParseError
    /\ oid \in OrderIds
    /\ orders[oid].status = PENDING
    /\ meals[orders[oid].meal].is_active
    /\ meals[orders[oid].meal].quantity >= orders[oid].quantity
    /\ meals[orders[oid].meal].pickup_end_time > now

C8_OutOfStockPurchaseFails ==
    [][\A mid \in MealIds, count \in Counts :
        count > meals[mid].quantity /\ process_buy_callback_read(1, mid, count)
        => /\ out'.op = "buy" /\ ~out'.ok
           /\ UNCHANGED <<orders, meals, tasks>>
      ]_vars

C8_Witness ==
    /\ out.op = "buy" /\ ~out.ok /\ out.path = "unavailable"
    /\ out.mid \in MealIds
    /\ meals[out.mid].is_active
    /\ out.count > meals[out.mid].quantity

\* C9: the purchase action creates no order when the meal is inactive or its
\* pickup end time has passed, even while the meal is still flagged active.
C9_NoPurchaseAfterPickupEnd ==
    [][\A mid \in MealIds, count \in Counts :
        /\ ~meals[mid].is_active \/ meals[mid].pickup_end_time <= now
        /\ process_buy_callback_read(1, mid, count)
        => /\ ~out'.ok /\ out'.op = "buy"
           /\ UNCHANGED <<orders, meals, tasks>>
      ]_vars

\* C10: every order that exists has quantity >= 1.
C10_OrderQuantityPositive == \A o \in OrderIds : orders[o].quantity >= 1

\* C11: once an order is COMPLETED or CANCELLED no operation changes its
\* status again.
C11_TerminalStatuses ==
    [][\A o \in OrderIds :
        orders[o].status \in {COMPLETED, CANCELLED}
        => orders'[o].status = orders[o].status
      ]_vars

\* the conditions under which /complete_order is to complete the order
MayComplete(user, order_id) ==
    /\ order_id \in OrderIds
    /\ VendorOf(user) /= 0
    /\ VendorApproved(VendorOf(user))
    /\ meals[orders[order_id].meal].vendor = VendorOf(user)
    /\ orders[order_id].status = PAID

C13_NonCompletedAccepted ==
    [][out'.op = "webhook"
       => \A o \in OrderIds, status \in {"pending", "failed"} :
            /\ orders[o].payment_id /= NoPaymentId
            /\ process_payment_webhook_read(1,
                  [WebhookOf(o) EXCEPT !.status = status])
            => /\ out'.ok /\ out'.http.status = 200
               /\ UNCHANGED <<orders, meals, tasks>>
      ]_vars

\* no order holds the payment id of the body
Unmatched(data) == \A o \in OrderIds : orders[o].payment_id /= data.payment_id

C15_RouteResponse ==
    out.op = "webhook"
    => /\ out.ok <=> out.http.status = 200
       /\ out.ok => out.http.body = "success"
       /\ ~out.ok => /\ out.http.status = 400
                     /\ out.http.body = "error"
                     /\ out.http.message

C15_Witness ==
    /\ out.op = "webhook" /\ out.path = "duplicate"
    /\ out.http.status = 200

\* C16: with the gateway enabled and a webhook secret configured, a webhook
\* whose X-Signature is not the HMAC-SHA256 of the payload is rejected with
\* an error response and changes no order and no meal.
C16_BadSignatureRejected ==
    [][(cfg.enabled /\ PAYMENT_WEBHOOK_SECRET /= "")
       => \A data \in WebhookInputs :
            /\ data.signature = "invalid"
            /\ process_payment_webhook_read(1, data)
            => /\ ~out'.ok /\ out'.http.status = 400
               /\ UNCHANGED tasks
      ]_vars

\* C17: the decrement of a meal by an order's portions is one atomic
\* conditional update: it subtracts the portions from the quantity the row
\* holds when that quantity is >= the portions, and leaves the row as it is
\* otherwise.
C17_AtomicConditionalDecrement ==
    [][\A t \in TaskIds :
        /\ tasks[t].pc = "save_meal"
        /\ \/ process_payment_webhook_save_meal(t)
           \/ process_successful_payment_save_meal(t)
           \/ process_webhook_save_meal(t)
        => LET m == tasks[t].mid
               portions == tasks[t].order.quantity
           IN meals'[m].quantity =
                 IF meals[m].quantity >= portions
                 THEN meals[m].quantity - portions
                 ELSE meals[m].quantity
      ]_vars

\* C18: calculate_and_record_earnings called on an order that is not
\* COMPLETED creates no earnings row and returns none, and whenever a row is
\* created its order is COMPLETED at that moment.
C18_EarningsOnlyWhenCompleted ==
    [][/\ \A t \in TaskIds, o \in OrderIds :
             orders[o].status /= COMPLETED
             /\ calculate_and_record_earnings_call(t, o)
             => ~out'.ok /\ UNCHANGED <<earnings, tasks>>
       /\ \A e \in 1..Len(earnings') :
             e > Len(earnings)
             => orders[earnings'[e].order].status = COMPLETED]_vars

\* C19: no two earnings rows are about the same order.
C19_OneRowPerOrder ==
    \A e, f \in 1..Len(earnings) :
        earnings[e].order = earnings[f].order => e = f

\* C20: in every stored earnings row the commission and the net amount add
\* up to the gross amount.
C20_AmountsAddUp ==
    \A e \in 1..Len(earnings) :
        earnings[e].commission_amount + earnings[e].net_amount
            = earnings[e].gross_amount

\* the hundredths nearest to the exact value x
Nearest(v, x) ==
    IF 2 * x.frac < RateScale THEN v = x.units
    ELSE IF 2 * x.frac > RateScale THEN v = x.units + 1
    ELSE v \in {x.units, x.units + 1}

Recorded(row) == <<row.order, row.commission_rate, row.gross_amount,
                   row.commission_amount, row.net_amount>>

EffectiveCommissions ==
    {c \in 1..Len(commissions) :
        /\ commissions[c].effective_from <= now
        /\ (commissions[c].effective_to = NoTime
            \/ commissions[c].effective_to > now)}

\* C23: while some commission row is in effect, the rate that
\* get_current_commission_rate hands to calculate_and_record_earnings is the
\* rate of a row in effect, never that of a row not yet started or ended.
C23_EffectiveRate ==
    [][\A t \in TaskIds :
          (tasks[t].kind = "earnings" /\ tasks[t].pc = "rate"
           /\ tasks'[t].pc = "create" /\ EffectiveCommissions /= {})
          => \E c \in EffectiveCommissions :
                tasks'[t].rate = commissions[c].commission_rate]_vars

\* C24: the amount of a payout request is the sum of the net amounts of the
\* earnings rows of the vendor and period that are unpaid when the request
\* is made up; rows already paid out are not counted.
C24_AmountIsUnpaidNet ==
    [][\A t \in TaskIds :
          (tasks[t].kind = "payout" /\ tasks[t].pc = "summary"
           /\ tasks'[t].pc = "create")
          => tasks'[t].amount =
                TotalNet(UnpaidEarnings(tasks[t].vendor, tasks[t].period))]_vars

\* the earnings rows of a payout request that are paid out
PaidEarnings(p) ==
    {e \in PeriodEarnings(payouts[p].vendor,
                          <<payouts[p].period_year, payouts[p].period_month>>) :
        earnings[e].is_paid_out}

\* C25: the amount of a COMPLETED payout request is the sum of the net
\* amounts of the earnings rows marked paid for its vendor and period.
C25_SettledAmount ==
    \A p \in 1..Len(payouts) :
        payouts[p].status = PayoutCompleted
        => payouts[p].amount = TotalNet(PaidEarnings(p))

C27_NothingToPayOut ==
    [][\A t \in TaskIds :
          (/\ create_monthly_payout_request_summary(t)
           /\ PayoutsOf(tasks[t].vendor, tasks[t].period) = {}
           /\ TotalNet(UnpaidEarnings(tasks[t].vendor, tasks[t].period)) = 0)
          => /\ out'.op = "payout" /\ ~out'.ok
             /\ tasks'[t] = Idle
             /\ UNCHANGED payouts]_vars

\* row e is of the vendor and period of handler t
InPeriodOf(t, row) ==
    /\ row.vendor = tasks[t].vendor
    /\ row.period_year = tasks[t].period[1]
    /\ row.period_month = tasks[t].period[2]

\* C28: when mark_earnings_as_paid succeeds, every earnings row of the
\* vendor and period that it found unpaid is paid out and dated, the payout
\* request of the vendor and period is COMPLETED, and no step of it changes
\* an earnings row or a payout request of another vendor or period.
C28_MarkPaid ==
    [][\A t \in TaskIds :
          tasks[t].kind = "mark_paid" /\ tasks'[t] /= tasks[t]
          => /\ Len(earnings') = Len(earnings) /\ Len(payouts') = Len(payouts)
             /\ \A e \in 1..Len(earnings) :
                   ~InPeriodOf(t, earnings[e]) => earnings'[e] = earnings[e]
             /\ \A p \in 1..Len(payouts) :
                   ~InPeriodOf(t, payouts[p]) => payouts'[p] = payouts[p]
             /\ tasks'[t] = Idle
                => /\ out'.op = "mark_paid" /\ out'.ok
                   /\ \A i \in 1..Len(tasks[t].batch) :
                         LET row == earnings'[tasks[t].batch[i].id]
                         IN  row.is_paid_out /\ row.paid_out_at /= NoTime
                   /\ \A p \in 1..Len(payouts') :
                         InPeriodOf(t, payouts'[p])
                         => payouts'[p].status = PayoutCompleted]_vars

C28_Witness ==
    /\ out.op = "mark_paid" /\ out.ok /\ out.oid \in 1..Len(payouts)
    /\ payouts[out.oid].status = PayoutCompleted
    /\ \E e, f \in 1..Len(earnings) :
          /\ earnings[e].is_paid_out
          /\ earnings[e].period_month = payouts[out.oid].period_month
          /\ ~earnings[f].is_paid_out
          /\ earnings[f].period_month /= payouts[out.oid].period_month

\* C29: mark_earnings_as_paid for a vendor and period without unpaid
\* earnings rows fails and changes no earnings row and no payout request.
C29_NothingToMark ==
    [][\A t \in TaskIds, vendor \in Vendors, period \in Periods,
          external_transaction_id \in ExternalIds :
          (/\ \A e \in PeriodEarnings(vendor, period) : earnings[e].is_paid_out
           /\ mark_earnings_as_paid_read(t, vendor, period,
                                         external_transaction_id))
          => /\ out'.op = "mark_paid" /\ ~out'.ok
             /\ UNCHANGED <<earnings, payouts, tasks>>]_vars

C29_Witness ==
    /\ out.op = "mark_paid" /\ ~out.ok /\ out.oid \in 1..Len(payouts)
    /\ payouts[out.oid].status = PayoutCompleted

\* text contains part as a run of consecutive characters
Contains(text, part) ==
    \E i \in 1..(Len(text) - Len(part) + 1) :
        SubSeq(text, i, i + Len(part) - 1) = part

\* C30: create_payment returns a payment id and no URL when the native
\* backend is switched on with a provider token of more than five
\* characters; otherwise, with the external gateway enabled, a payment id
\* and a URL that contains the order id, the amount and the payment id;
\* with neither backend, no payment id and no URL.
C30_CreatePayment ==
    out.op = "create_payment"
    => LET result == out.payment.result IN
       IF cfg.telegram_payment_enabled /\ Len(cfg.telegram_provider_token) > 5
       THEN result.payment_id /= NoPaymentId /\ result.payment_url = NoUrl
       ELSE IF cfg.enabled
       THEN /\ result.payment_id /= NoPaymentId
            /\ result.payment_url /= NoUrl
            /\ Contains(result.payment_url, FormatInt(out.payment.order_id))
            /\ Contains(result.payment_url, FormatAmount(out.payment.amount))
            /\ Contains(result.payment_url,
                        FormatPaymentId(result.payment_id))
       ELSE result.payment_id = NoPaymentId /\ result.payment_url = NoUrl

C30_Witness ==
    /\ out.op = "create_payment"
    /\ cfg.telegram_payment_enabled /\ cfg.telegram_provider_token = ShortToken
    /\ out.payment.result.payment_url /= NoUrl


\* an order the cleanup query would select: PENDING past the timeout
Overdue(o) ==
    /\ o \in OrderIds
    /\ orders[o].status = PENDING
    /\ orders[o].created_at < now - ORDER_TIMEOUT_MINUTES

\* C31: in the running application, with its periodic task runner and its
\* handlers scheduled fairly, every order that is PENDING past the 30-minute
\* timeout eventually leaves PENDING (is set to CANCELLED, unless a late
\* confirmation or command takes it first).
C31_OverdueOrderCancelled ==
    \A o \in 1..MaxOrders :
        Overdue(o) ~> (o \in OrderIds /\ orders[o].status /= PENDING)

\* C32: in the running application, with handlers scheduled fairly, every
\* order marked COMPLETED eventually has a VendorEarnings row.
C32_CompletedOrderGetsEarnings ==
    \A o \in 1..MaxOrders :
        (o \in OrderIds /\ orders[o].status = COMPLETED)
            ~> (EarningsOf(o) /= {})

\* C33: when a confirmation handler ends with a failure, the order it was
\* applying is PENDING (nothing of the confirmation is left behind).
C33_AllOrNothing ==
    (out.op \in {"webhook", "native"} /\ out.path = "error")
        => orders[out.oid].status = PENDING

\* C34: when every delivery for an order has ended and no other order was
\* touched, the meal's quantity is the listed quantity less the order's
\* portions (floored at zero), and at no time has the paid notification of
\* an order been sent more than once, however the deliveries interleave.
C34_InterleavedDeliveriesApplyOnce ==
    \A o \in OrderIds :
        /\ notified[o] <= 1
        /\ (/\ orders[o].status = PAID
            /\ \A t \in TaskIds : tasks[t].kind = "idle"
            /\ \A p \in OrderIds \ {o} : orders[p].status = PENDING)
           => \E q \in ListedQuantities :
                 meals[orders[o].meal].quantity = Max(0, q - orders[o].quantity)

\* C35: cleanup_expired_orders never sets to CANCELLED an order that a
\* confirmation has made PAID, also when it read the order before the
\* confirmation was applied.
C35_CleanupSparesPaidOrders ==
    [][\A o \in OrderIds, t \in TaskIds :
        /\ orders[o].status = PAID
        /\ tasks[t].kind = "cleanup"
        /\ cleanup_expired_orders_save(t)
        => orders'[o].status = PAID
      ]_vars

\* the portions of the orders in S, added up
RECURSIVE Portions(_)
Portions(S) == IF S = {} THEN 0
               ELSE LET o == CHOOSE x \in S : TRUE
                    IN orders[o].quantity + Portions(S \ {o})

\* the orders of a meal that were paid for
Sold(m) == {o \in OrderIds : orders[o].meal = m
                              /\ orders[o].status \in {PAID, COMPLETED}}

\* C36: for every meal, the portions of its PAID and COMPLETED orders
\* together are at most the quantity the meal was listed with.
C36_NoOverselling ==
    \A m \in MealIds : \E q \in ListedQuantities : Portions(Sold(m)) <= q

\* C37: for an order that holds the payment_id its purchase stored, a
\* webhook marks it PAID only when the payment_id it carries is that one,
\* and no step replaces the stored payment_id.
C37_PaymentIdMatches ==
    [][\A o \in OrderIds :
        orders[o].payment_id /= NoPaymentId
        => /\ orders'[o].payment_id = orders[o].payment_id
           /\ (/\ orders[o].status /= PAID /\ orders'[o].status = PAID
               /\ tasks[1].kind \in {"webhook", "gateway"})
              => tasks[1].payment_id = orders[o].payment_id
      ]_vars

\* C38: an order that is COMPLETED and has a VendorEarnings row stays
\* COMPLETED in every step, so that every order with an earnings row is
\* COMPLETED.
C38_EarnedOrdersStayCompleted ==
    [][\A o \in OrderIds :
        EarningsOf(o) /= {} /\ orders[o].status = COMPLETED
        => orders'[o].status = COMPLETED
      ]_vars

\* C39: when the PayoutRequest of a vendor and period is COMPLETED, every
\* VendorEarnings row of that vendor and period is paid out.
C39_SettledPeriodHasNoUnpaidRow ==
    \A p \in 1..Len(payouts) :
        payouts[p].status = PayoutCompleted
        => \A e \in PeriodEarnings(payouts[p].vendor,
                                   <<payouts[p].period_year,
                                     payouts[p].period_month>>) :
              earnings[e].is_paid_out

\* the fields of an earnings row that are fixed when the row is created
Fixed(row) ==
    <<row.vendor, row.order, row.gross_amount, row.commission_rate,
      row.commission_amount, row.net_amount, row.period_year,
      row.period_month>>

\* C40: no step removes a VendorEarnings row or turns is_paid_out from
\* true to false; a step that changes an existing row is the save of
\* mark_earnings_as_paid, and it leaves vendor, order, gross_amount,
\* commission_rate, commission_amount, net_amount and period as they were.
C40_OnlyPaidOutFlagChanges ==
    [][/\ Len(earnings') >= Len(earnings)
       /\ \A e \in 1..Len(earnings) :
             /\ earnings[e].is_paid_out => earnings'[e].is_paid_out
             /\ Fixed(earnings'[e]) = Fixed(earnings[e])
             /\ earnings'[e] /= earnings[e]
                => /\ tasks[1].kind = "mark_paid"
                   /\ mark_earnings_as_paid_save_earning(1)
      ]_vars

C40_Witness ==
    /\ tasks[1].kind = "mark_paid" /\ tasks[1].count > 1
    /\ LET item == tasks[1].batch[1]
       IN /\ ~item.row.is_paid_out
          /\ earnings[item.id].is_paid_out
          /\ earnings[item.id].paid_out_at = tasks[1].time
          /\ Fixed(earnings[item.id]) = Fixed(item.row)
          /\ item.row.net_amount > 0
====
